---------------------------- MODULE Spec2Model ----------------------------
(***************************************************************************)
(* FriendBook (src/app.py): a Flask application over four SQLAlchemy       *)
(* tables (User, Post, Comment, Message) on SQLite, with cookie sessions.  *)
(* Every route handler that reads or writes a table or the session is    *)
(* one action; register is split at the point where it has read the User   *)
(* table and has not yet written it, so that two register requests can     *)
(* interleave. The pages that only render (GET /, and the forms of GET     *)
(* /register and GET /login) are left out.                                 *)
(***************************************************************************)
EXTENDS Integers, Sequences, FiniteSets, TLC

VARIABLES
    users,      \* table user:    id -> [username, password]
    posts,      \* table post:    id -> [content, timestamp, user_id]
    comments,   \* table comment: id -> [content, timestamp, user_id, post_id]
    messages,   \* table message: id -> [content, user, timestamp]
    session,    \* the session cookie of each client
    inflight,   \* register requests that passed the username check, not yet committed
    clock,      \* what datetime.utcnow() returns
    resp        \* the response to the last request handled

vars == <<users, posts, comments, messages, session, inflight, clock, resp>>
store == <<users, posts, comments, messages>>

-----------------------------------------------------------------------------
(* Bounds of the model: the rows a table may hold, the last clock value,   *)
(* and the sets the inputs of requests are drawn from                      *)

MaxPosts == 2
MaxComments == 1
MaxMessages == 2
MaxClock == 1

Clients == {"c1", "c2"}
Usernames == {"alice", "bob"}
Passwords == {"pw1", "pw2"}
Salts == {"s1", "s2"}
Contents == {"", "hello", "hello v2"}
\* ids a request may name: those a table can hold, and one it cannot
PostIds == 1 .. (MaxPosts + 1)
CommentIds == 1 .. (MaxComments + 1)

-----------------------------------------------------------------------------
(* Values *)

\* Python's None: what session.get("user_id") gives without the key, and the
\* NULL the ORM writes into a foreign key. Row ids start at 1.
None == 0
NoName == ""

EmptyTable == [i \in {} |-> None]

\* session.clear(), and a client's cookie before any login
Anonymous == [user_id |-> None, username |-> NoName]

\* "user_id" in session
HasUserId(s) == s.user_id # None

\* session.get("user_id")
SessionGetUserId(s) == s.user_id

-----------------------------------------------------------------------------
(* The persistence layer *)

Max(S) == CHOOSE x \in S : \A y \in S : y <= x

\* An INTEGER PRIMARY KEY without AUTOINCREMENT: SQLite gives a new row the
\* largest rowid in the table plus one, so the id of a deleted last row is reused.
NextId(table) == IF DOMAIN table = {} THEN 1 ELSE Max(DOMAIN table) + 1

Insert(table, row) ==
    LET n == NextId(table)
    IN  [i \in DOMAIN table \cup {n} |-> IF i = n THEN row ELSE table[i]]

Delete(table, id) == [i \in DOMAIN table \ {id} |-> table[i]]

Min(S) == CHOOSE x \in S : \A y \in S : x <= y

\* .first() (LIMIT 1) of a query scanning a rowid table: the lowest matching id
First(ids) == Min(ids)

\* User.query.filter_by(username=...).first(): the ids of matching rows
ByUsername(u) == {i \in DOMAIN users : users[i].username = u}

\* username = db.Column(..., unique=True): the UNIQUE constraint at INSERT
UniqueUsernameOk(u) == ByUsername(u) = {}

\* post_id = db.Column(..., nullable=False): the NOT NULL constraint at flush
PostIdNotNullOk(table) == \A k \in DOMAIN table : table[k].post_id # None

\* Post.comments = db.relationship("Comment", backref="post") with the default
\* cascade (no "delete"): deleting a Post makes the ORM set post_id of each of
\* its Comments to NULL in the same flush.
Deassociate(table, id) ==
    [k \in DOMAIN table |->
        IF table[k].post_id = id THEN [table[k] EXCEPT !.post_id = None]
                                 ELSE table[k]]

\* The permutations of the ids of a table
Orderings(table) ==
    {s \in [1 .. Cardinality(DOMAIN table) -> DOMAIN table] :
        \A i, j \in DOMAIN s : i # j => s[i] # s[j]}

\* Message.query.order_by(Message.timestamp.asc()).all(): the timestamp is the
\* only sort key, so rows with equal timestamps come in an order SQL leaves open.
OrderByTimestampAsc(table) ==
    {s \in Orderings(table) :
        \A i, j \in DOMAIN s : i < j => table[s[i]].timestamp <= table[s[j]].timestamp}

-----------------------------------------------------------------------------
(* werkzeug.security *)

\* The digest of a salted password; distinct (salt, password) pairs have
\* distinct digests.
Digest(salt, pw) == <<salt, pw>>

\* generate_password_hash(pw), with the salt it drew
generate_password_hash(pw, salt) == [salt |-> salt, digest |-> Digest(salt, pw)]

\* check_password_hash that accepts every password
check_password_hash_any(pwhash, pw) == TRUE

\* check_password_hash(pwhash, pw)
check_password_hash(pwhash, pw) == pwhash.digest = Digest(pwhash.salt, pw)

-----------------------------------------------------------------------------
(* Responses *)

\* What the client gets back: the route that answered, the redirect target or
\* the text or page returned, the message flashed, and the rows a page lists.
Response(route, status, flashed, body) ==
    [route |-> route, status |-> status, flash |-> flashed, body |-> body]

Respond(route, status) == resp' = Response(route, status, "", <<>>)

Init ==
    /\ users = EmptyTable
    /\ posts = EmptyTable
    /\ comments = EmptyTable
    /\ messages = EmptyTable
    /\ session = [c \in Clients |-> Anonymous]
    /\ inflight = {}
    /\ clock = 0
    /\ resp = Response("none", "none", "", <<>>)

-----------------------------------------------------------------------------
(* Route handlers *)

\* POST /register, lines 118-122: hash the password, look the username up
register_check(c, username, pw, salt) ==
    /\ LET password == generate_password_hash(pw, salt) IN
        IF ByUsername(username) # {}
        THEN /\ resp' = Response("register", "redirect:/register",
                                 "Username already exists.", <<>>)
             /\ UNCHANGED inflight
        ELSE /\ inflight' = inflight \cup
                    {[client |-> c, username |-> username, password |-> password]}
             /\ UNCHANGED resp
    /\ UNCHANGED <<users, posts, comments, messages, session, clock>>

\* register's insert on a username column without unique=True
register_insert_no_unique(r) ==
    /\ r \in inflight
    /\ inflight' = inflight \ {r}
    /\ users' = Insert(users, [username |-> r.username, password |-> r.password])
    /\ resp' = Response("register", "redirect:/login", "Registered! Please log in.", <<>>)
    /\ UNCHANGED <<posts, comments, messages, session, clock>>

\* POST /register, lines 123-127: add the User and commit
register_insert(r) ==
    /\ r \in inflight
    /\ inflight' = inflight \ {r}
    /\ IF UniqueUsernameOk(r.username)
       THEN /\ users' = Insert(users, [username |-> r.username, password |-> r.password])
            /\ resp' = Response("register", "redirect:/login",
                                "Registered! Please log in.", <<>>)
       ELSE /\ Respond("register", "500")
            /\ UNCHANGED users
    /\ UNCHANGED <<posts, comments, messages, session, clock>>

\* POST /login
login(c, username, pw) ==
    /\ IF /\ ByUsername(username) # {}
          /\ check_password_hash(users[First(ByUsername(username))].password, pw)
       THEN LET id == First(ByUsername(username))
            IN  /\ session' = [session EXCEPT ![c] =
                        [user_id |-> id, username |-> users[id].username]]
                /\ Respond("login", "redirect:/")
       ELSE /\ resp' = Response("login", "page", "Invalid login.", <<>>)
            /\ UNCHANGED session
    /\ UNCHANGED <<users, posts, comments, messages, inflight, clock>>

\* GET /logout
logout(c) ==
    /\ session' = [session EXCEPT ![c] = Anonymous]
    /\ Respond("logout", "redirect:/")
    /\ UNCHANGED <<users, posts, comments, messages, inflight, clock>>

\* post without the login check
post_anonymous(c, content) ==
    /\ posts' = Insert(posts, [content |-> content, timestamp |-> clock,
                               user_id |-> SessionGetUserId(session[c])])
    /\ Respond("post", "redirect:/")
    /\ UNCHANGED <<users, comments, messages, session, inflight, clock>>

\* POST /post
post(c, content) ==
    /\ IF ~HasUserId(session[c])
       THEN /\ Respond("post", "redirect:/login")
            /\ UNCHANGED posts
       ELSE /\ posts' = Insert(posts, [content |-> content, timestamp |-> clock,
                                       user_id |-> session[c].user_id])
            /\ Respond("post", "redirect:/")
    /\ UNCHANGED <<users, comments, messages, session, inflight, clock>>

\* edit_post on a timestamp column that is also set on update
edit_post_touch_timestamp(c, id, content) ==
    /\ IF id \notin DOMAIN posts
       THEN /\ Respond("edit_post", "404")
            /\ UNCHANGED posts
       ELSE IF posts[id].user_id # SessionGetUserId(session[c])
       THEN /\ Respond("edit_post", "Unauthorized")
            /\ UNCHANGED posts
       ELSE /\ posts' = [posts EXCEPT ![id].content = content, ![id].timestamp = clock]
            /\ Respond("edit_post", "redirect:/")
    /\ UNCHANGED <<users, comments, messages, session, inflight, clock>>

\* POST /edit_post/<id>
edit_post(c, id, content) ==
    /\ IF id \notin DOMAIN posts
       THEN /\ Respond("edit_post", "404")
            /\ UNCHANGED posts
       ELSE IF posts[id].user_id # SessionGetUserId(session[c])
       THEN /\ Respond("edit_post", "Unauthorized")
            /\ UNCHANGED posts
       ELSE /\ posts' = [posts EXCEPT ![id].content = content]
            /\ Respond("edit_post", "redirect:/")
    /\ UNCHANGED <<users, comments, messages, session, inflight, clock>>

\* GET /delete_post/<id>
delete_post(c, id) ==
    /\ IF id \notin DOMAIN posts
       THEN /\ Respond("delete_post", "404")
            /\ UNCHANGED <<posts, comments>>
       ELSE IF posts[id].user_id # SessionGetUserId(session[c])
       THEN /\ Respond("delete_post", "Unauthorized")
            /\ UNCHANGED <<posts, comments>>
       ELSE IF ~PostIdNotNullOk(Deassociate(comments, id))
       THEN \* IntegrityError at commit: the transaction is rolled back
            /\ Respond("delete_post", "500")
            /\ UNCHANGED <<posts, comments>>
       ELSE /\ posts' = Delete(posts, id)
            /\ comments' = Deassociate(comments, id)
            /\ Respond("delete_post", "redirect:/")
    /\ UNCHANGED <<users, messages, session, inflight, clock>>

\* POST /comment/<post_id>. The handler does not look the Post up, and SQLite
\* does not enforce the foreign key (PRAGMA foreign_keys is off unless set), so
\* the row is stored whatever post_id is.
comment(c, post_id, content) ==
    /\ IF ~HasUserId(session[c])
       THEN /\ Respond("comment", "redirect:/login")
            /\ UNCHANGED comments
       ELSE /\ comments' = Insert(comments, [content |-> content, timestamp |-> clock,
                                             user_id |-> session[c].user_id,
                                             post_id |-> post_id])
            /\ Respond("comment", "redirect:/")
    /\ UNCHANGED <<users, posts, messages, session, inflight, clock>>

\* edit_comment without the ownership check
edit_comment_unchecked(c, id, content) ==
    /\ IF id \notin DOMAIN comments
       THEN /\ Respond("edit_comment", "404")
            /\ UNCHANGED comments
       ELSE /\ comments' = [comments EXCEPT ![id].content = content]
            /\ Respond("edit_comment", "redirect:/")
    /\ UNCHANGED <<users, posts, messages, session, inflight, clock>>

\* POST /edit_comment/<id>
edit_comment(c, id, content) ==
    /\ IF id \notin DOMAIN comments
       THEN /\ Respond("edit_comment", "404")
            /\ UNCHANGED comments
       ELSE IF comments[id].user_id # SessionGetUserId(session[c])
       THEN /\ Respond("edit_comment", "Unauthorized")
            /\ UNCHANGED comments
       ELSE /\ comments' = [comments EXCEPT ![id].content = content]
            /\ Respond("edit_comment", "redirect:/")
    /\ UNCHANGED <<users, posts, messages, session, inflight, clock>>

\* GET /delete_comment/<id>
delete_comment(c, id) ==
    /\ IF id \notin DOMAIN comments
       THEN /\ Respond("delete_comment", "404")
            /\ UNCHANGED comments
       ELSE IF comments[id].user_id # SessionGetUserId(session[c])
       THEN /\ Respond("delete_comment", "Unauthorized")
            /\ UNCHANGED comments
       ELSE /\ comments' = Delete(comments, id)
            /\ Respond("delete_comment", "redirect:/")
    /\ UNCHANGED <<users, posts, messages, session, inflight, clock>>

\* GET /chat and POST /chat
chat(c, method, message) ==
    /\ IF method = "POST" /\ HasUserId(session[c])
       THEN messages' = Insert(messages, [content |-> message,
                                          user |-> session[c].username,
                                          timestamp |-> clock])
       ELSE UNCHANGED messages
    /\ \E listed \in OrderByTimestampAsc(messages') :
        resp' = Response("chat", "page", "", listed)
    /\ UNCHANGED <<users, posts, comments, session, inflight, clock>>

\* clearchat that asks for a login first
clearchat_logged_in_only(c) ==
    /\ IF ~HasUserId(session[c])
       THEN /\ Respond("clearchat", "redirect:/login")
            /\ UNCHANGED messages
       ELSE /\ messages' = EmptyTable
            /\ Respond("clearchat", "redirect:/chat")
    /\ UNCHANGED <<users, posts, comments, session, inflight, clock>>

\* GET /clearchat
clearchat(c) ==
    /\ messages' = EmptyTable
    /\ Respond("clearchat", "redirect:/chat")
    /\ UNCHANGED <<users, posts, comments, session, inflight, clock>>

\* Time passes: a later datetime.utcnow() is not earlier
Tick ==
    /\ clock < MaxClock
    /\ clock' = clock + 1
    /\ UNCHANGED <<users, posts, comments, messages, session, inflight, resp>>

-----------------------------------------------------------------------------
(* Specifications *)

Rows(table) == Cardinality(DOMAIN table)

\* The requests of the authentication routes, handled one at a time: clients
\* CS, registering with a password of RP and a salt of SL, logging in with a
\* password of LP.
AuthStep(CS, RP, SL, LP) ==
    \/ \E c \in CS, u \in Usernames, pw \in RP, salt \in SL :
        inflight = {} /\ register_check(c, u, pw, salt)
    \/ \E r \in inflight : register_insert(r)
    \/ \E c \in CS, u \in Usernames, pw \in LP : inflight = {} /\ login(c, u, pw)
    \/ \E c \in CS : inflight = {} /\ logout(c)

\* The same requests with the register requests of different clients interleaving
AuthRace(CS, RP, SL, LP) ==
    \/ \E c \in CS, u \in Usernames, pw \in RP, salt \in SL :
        (\A r \in inflight : r.client # c) /\ register_check(c, u, pw, salt)
    \/ \E r \in inflight : register_insert(r)
    \/ \E c \in CS, u \in Usernames, pw \in LP :
        (\A r \in inflight : r.client # c) /\ login(c, u, pw)
    \/ \E c \in CS : (\A r \in inflight : r.client # c) /\ logout(c)

\* The requests of the post routes, with contents PT
PostStep(CS, PT) ==
    \/ \E c \in CS, content \in PT :
        (HasUserId(session[c]) => Rows(posts) < MaxPosts) /\ post(c, content)
    \/ \E c \in CS, id \in PostIds, content \in PT : edit_post(c, id, content)
    \/ \E c \in CS, id \in PostIds : delete_post(c, id)

\* The requests of the comment routes, with contents CT
CommentStep(CS, CT) ==
    \/ \E c \in CS, id \in PostIds, content \in CT :
        (HasUserId(session[c]) => Rows(comments) < MaxComments) /\ comment(c, id, content)
    \/ \E c \in CS, id \in CommentIds, content \in CT : edit_comment(c, id, content)
    \/ \E c \in CS, id \in CommentIds : delete_comment(c, id)

\* The requests of the chat routes, with message texts MT
ChatStep(CS, MT) ==
    \/ \E c \in CS, message \in MT :
        (HasUserId(session[c]) => Rows(messages) < MaxMessages) /\ chat(c, "POST", message)
    \/ \E c \in CS : chat(c, "GET", "")
    \/ \E c \in CS : clearchat(c)

\* Registration and login, two clients, register requests interleaving
NextAuth == AuthRace(Clients, Passwords, Salts, Passwords)

SpecAuth == Init /\ [][NextAuth]_vars

\* Posts and comments, one client that logs in as either user
NextContent ==
    \/ AuthStep({"c1"}, {"pw1"}, {"s1"}, Passwords)
    \/ inflight = {} /\ PostStep({"c1"}, {"", "hello"})
    \/ inflight = {} /\ CommentStep({"c1"}, {"", "hello"})

SpecContent == Init /\ [][NextContent]_vars

\* Posts over time, with comments under them
NextEdit ==
    \/ AuthStep({"c1"}, {"pw1"}, {"s1"}, {"pw1"})
    \/ inflight = {} /\ PostStep({"c1"}, {"hello", "hello v2"})
    \/ inflight = {} /\ CommentStep({"c1"}, {"hello"})
    \/ inflight = {} /\ Tick

SpecEdit == Init /\ [][NextEdit]_vars

\* The chat room, two clients
NextChat ==
    \/ AuthStep(Clients, {"pw1"}, {"s1"}, Passwords)
    \/ inflight = {} /\ ChatStep(Clients, Contents)
    \/ inflight = {} /\ Tick

SpecChat == Init /\ [][NextChat]_vars

\* Every route, one client, one text
NextCreate ==
    \/ AuthStep({"c1"}, {"pw1"}, {"s1"}, {"pw1"})
    \/ inflight = {} /\ PostStep({"c1"}, {"hello"})
    \/ inflight = {} /\ CommentStep({"c1"}, {"hello"})
    \/ inflight = {} /\ ChatStep({"c1"}, {"hello"})

SpecCreate == Init /\ [][NextCreate]_vars

\* Every route, every input
Next ==
    \/ AuthRace(Clients, Passwords, Salts, Passwords)
    \/ PostStep(Clients, Contents)
    \/ CommentStep(Clients, Contents)
    \/ ChatStep(Clients, Contents)
    \/ Tick

Spec == Init /\ [][Next]_vars

-----------------------------------------------------------------------------
(* Ownership *)

\* The session of client c is not the owner's: another user's, or anonymous
NotOwner(c, row) == session[c].user_id # row.user_id

\* A row present now is gone, or has another content, in the next state
Touched(table, nextTable, id) ==
    \/ id \notin DOMAIN nextTable
    \/ nextTable[id].content # table[id].content

\* C1: a request to edit or delete an existing Post or Comment from a session
\* that is not its owner's (another logged-in user, or anonymous) is answered
\* Unauthorized and leaves the four tables as they were; and whenever a Post or
\* Comment changes content or disappears, the step is an edit or delete request
\* for it made under its owner's session.
C1_OnlyOwnerMutates ==
    [][ /\ resp'.route \in {"edit_post", "delete_post"} =>
            \A c \in Clients, id \in DOMAIN posts, content \in Contents :
                (NotOwner(c, posts[id])
                    /\ (edit_post(c, id, content) \/ delete_post(c, id)))
                    => (resp'.status = "Unauthorized" /\ UNCHANGED store)
        /\ resp'.route \in {"edit_comment", "delete_comment"} =>
            \A c \in Clients, id \in DOMAIN comments, content \in Contents :
                (NotOwner(c, comments[id])
                    /\ (edit_comment(c, id, content) \/ delete_comment(c, id)))
                    => (resp'.status = "Unauthorized" /\ UNCHANGED store)
        /\ \A id \in DOMAIN posts :
            Touched(posts, posts', id) =>
                /\ resp'.route \in {"edit_post", "delete_post"}
                /\ \E c \in Clients :
                    /\ session[c].user_id = posts[id].user_id
                    /\ \/ delete_post(c, id)
                       \/ \E content \in Contents : edit_post(c, id, content)
        /\ \A id \in DOMAIN comments :
            Touched(comments, comments', id) =>
                /\ resp'.route \in {"edit_comment", "delete_comment"}
                /\ \E c \in Clients :
                    /\ session[c].user_id = comments[id].user_id
                    /\ \/ delete_comment(c, id)
                       \/ \E content \in Contents : edit_comment(c, id, content)
      ]_vars

\* A logged-in user has just been refused the edit of another user's Comment,
\* which is still there
C1_Witness ==
    /\ resp.route = "edit_comment"
    /\ resp.status = "Unauthorized"
    /\ HasUserId(session["c1"])
    /\ \E id \in DOMAIN comments : NotOwner("c1", comments[id])

-----------------------------------------------------------------------------
(* Cascade and references *)

\* C2: when its owner deletes a Post, the request succeeds, the Post is gone,
\* every Comment of that Post is gone, and every other Comment is still there
\* unchanged.
C2_DeleteCascades ==
    [][ resp'.route = "delete_post" =>
            \A c \in Clients, id \in DOMAIN posts :
                (session[c].user_id = posts[id].user_id /\ delete_post(c, id)) =>
                    /\ resp'.status = "redirect:/"
                    /\ id \notin DOMAIN posts'
                    /\ \A k \in DOMAIN comments :
                        IF comments[k].post_id = id
                        THEN k \notin DOMAIN comments'
                        ELSE k \in DOMAIN comments' /\ comments'[k] = comments[k]
      ]_vars

\* C3: every Comment's post_id names an existing Post (a comment request for
\* a missing Post is refused and stores nothing).
C3_CommentsNamePosts ==
    \A k \in DOMAIN comments : comments[k].post_id \in DOMAIN posts

\* C7: no stored Post has empty content (an empty content is refused by
\* POST /post and POST /edit_post).
C7_NoEmptyPost ==
    \A id \in DOMAIN posts : posts[id].content # ""

-----------------------------------------------------------------------------
(* Registration and login *)

UniqueUsernames ==
    \A i, j \in DOMAIN users : users[i].username = users[j].username => i = j

\* C4: a register request for a username that a User already has is answered
\* with the flash 'Username already exists.' and changes no table; a stored
\* User keeps its id, username and password hash for ever; and after every
\* step, register requests interleaving or not, no two Users share a username.
C4_UsernamesUnique ==
    [][ /\ UniqueUsernames'
        /\ resp'.route = "register" =>
            \A c \in Clients, u \in Usernames, pw \in Passwords, salt \in Salts :
                (ByUsername(u) # {} /\ register_check(c, u, pw, salt)) =>
                    /\ resp'.status = "redirect:/register"
                    /\ resp'.flash = "Username already exists."
                    /\ UNCHANGED store
        /\ \A i \in DOMAIN users : i \in DOMAIN users' /\ users'[i] = users[i]
      ]_vars

\* alice is registered and a register request has just been refused as a duplicate
C4_Witness ==
    /\ resp.route = "register"
    /\ resp.flash = "Username already exists."
    /\ \E i \in DOMAIN users : users[i].username = "alice"

\* pw is the password this User registered with: the stored hash is what
\* generate_password_hash made of it
IsPasswordOf(pw, user) ==
    \E salt \in Salts : user.password = generate_password_hash(pw, salt)

\* C5: a login with the username of a User and the password it registered with
\* redirects to / and leaves the session carrying that User's id and username,
\* whatever it carried before; a login with an unknown username or another
\* password gets 'Invalid login.' and leaves every session as it was, so an
\* unauthenticated session stays unauthenticated.
C5_LoginIdentity ==
    [][ resp'.route = "login" =>
            \A c \in Clients, u \in Usernames, pw \in Passwords :
                login(c, u, pw) =>
                    IF \E i \in DOMAIN users :
                            users[i].username = u /\ IsPasswordOf(pw, users[i])
                    THEN /\ resp'.status = "redirect:/"
                         /\ \E i \in DOMAIN users :
                                /\ users[i].username = u
                                /\ session'[c] = [user_id |-> i, username |-> u]
                         /\ \A d \in Clients \ {c} : session'[d] = session[d]
                    ELSE /\ resp'.flash = "Invalid login."
                         /\ session' = session
                         /\ (~HasUserId(session[c]) => ~HasUserId(session'[c]))
      ]_vars

\* A login has just succeeded and the client's session is bob's, the second
\* User registered
C5_Witness ==
    /\ resp.route = "login"
    /\ resp.status = "redirect:/"
    /\ \E c \in Clients : session[c] = [user_id |-> 2, username |-> "bob"]
    /\ 2 \in DOMAIN users /\ users[2].username = "bob"

-----------------------------------------------------------------------------
(* Authors *)

AuthorsExist ==
    /\ \A id \in DOMAIN posts : posts[id].user_id \in DOMAIN users
    /\ \A id \in DOMAIN comments : comments[id].user_id \in DOMAIN users
    /\ \A id \in DOMAIN messages : ByUsername(messages[id].user) # {}

\* C6: a POST /post, POST /comment/<id> or POST /chat from a session that is
\* not logged in changes no table; a Message that appears carries the username
\* of a session logged in at that step; and after every step every Post and
\* Comment has the id of a User and every Message the username of a User.
C6_AuthorsExist ==
    [][ /\ AuthorsExist'
        /\ resp'.route \in {"post", "comment", "chat"} =>
            \A c \in Clients :
                (/\ ~HasUserId(session[c])
                 /\ \/ \E content \in Contents : post(c, content)
                    \/ \E id \in PostIds, content \in Contents : comment(c, id, content)
                    \/ \E message \in Contents : chat(c, "POST", message))
                    => UNCHANGED store
        /\ \A id \in DOMAIN messages' :
            (id \notin DOMAIN messages \/ messages'[id] # messages[id]) =>
                \E c \in Clients :
                    HasUserId(session[c]) /\ session[c].username = messages'[id].user
      ]_vars

\* An anonymous POST /post has just been sent to the login page while Posts,
\* Comments and Messages of registered users are stored
C6_Witness ==
    /\ resp.route = "post"
    /\ resp.status = "redirect:/login"
    /\ \A c \in Clients : ~HasUserId(session[c])
    /\ posts # EmptyTable /\ comments # EmptyTable /\ messages # EmptyTable

-----------------------------------------------------------------------------
(* Chat *)

\* The ids of a table in insertion order: ids are handed out ascending, and
\* Messages are only ever deleted all at once
InsertionOrder(table) ==
    CHOOSE s \in Orderings(table) : \A i, j \in DOMAIN s : i < j => s[i] < s[j]

\* C8: the chat page lists every stored Message exactly once, in insertion
\* order, oldest first, also for Messages with equal timestamps.
C8_ListedInInsertionOrder ==
    resp.route = "chat" => resp.body = InsertionOrder(messages)

\* C9: GET /clearchat from any session, logged in or not, leaves no Message and
\* leaves Users, Posts, Comments and every session as they were; Messages appear
\* again only by a POST /chat; and a chat page rendered while there is no
\* Message lists nothing.
C9_ClearChat ==
    [][ /\ resp'.route = "clearchat" =>
            \A c \in Clients :
                clearchat(c) =>
                    /\ messages' = EmptyTable
                    /\ resp'.status = "redirect:/chat"
                    /\ UNCHANGED <<users, posts, comments, session>>
        /\ (messages = EmptyTable /\ messages' # EmptyTable) =>
            /\ resp'.route = "chat"
            /\ \E c \in Clients, message \in Contents : chat(c, "POST", message)
        /\ (resp'.route = "chat" /\ messages' = EmptyTable) => resp'.body = <<>>
      ]_vars

\* The chat has just been cleared by a request made while no session was
\* logged in, with Users registered who could have written Messages
C9_Witness ==
    /\ resp.route = "clearchat"
    /\ messages = EmptyTable
    /\ \A c \in Clients : ~HasUserId(session[c])
    /\ users # EmptyTable

-----------------------------------------------------------------------------
(* Editing a Post *)

\* C10: POST /edit_post/<id> for an id that names no Post is answered 404 and
\* changes nothing, for every session; for an existing Post and a session
\* logged in as its owner it redirects to / and the Post has the new content
\* and its old owner and timestamp, every other Post is as before, and Users,
\* Comments and Messages are unchanged.
C10_OwnerEdits ==
    [][ resp'.route = "edit_post" =>
            \A c \in Clients, id \in PostIds, content \in Contents :
                edit_post(c, id, content) =>
                    IF id \notin DOMAIN posts
                    THEN resp'.status = "404" /\ UNCHANGED <<store, session>>
                    ELSE session[c].user_id = posts[id].user_id =>
                            /\ resp'.status = "redirect:/"
                            /\ DOMAIN posts' = DOMAIN posts
                            /\ posts'[id].content = content
                            /\ posts'[id].user_id = posts[id].user_id
                            /\ posts'[id].timestamp = posts[id].timestamp
                            /\ \A other \in DOMAIN posts \ {id} : posts'[other] = posts[other]
                            /\ UNCHANGED <<users, comments, messages, session>>
      ]_vars

\* An edit has just succeeded on a Post created at an earlier time, which now
\* reads "hello v2", beside a Post of the other user and under a Comment
C10_Witness ==
    /\ resp.route = "edit_post"
    /\ resp.status = "redirect:/"
    /\ \E id, other \in DOMAIN posts :
        /\ posts[id].content = "hello v2"
        /\ posts[id].timestamp < clock
        /\ posts[id].user_id = session["c1"].user_id
        /\ posts[other].user_id # posts[id].user_id
    /\ comments # EmptyTable

=============================================================================
